---- MODULE Spec2Model ----
(***************************************************************************)
(* Client-side session / cart state synchronisation layer of the          *)
(* Training-Angular shop client: AuthStore (sessionStorage persistence),  *)
(* CartService (cart$ BehaviorSubject), AuthInterceptor, AuthService and  *)
(* the views that drive them (header, product list, login, checkout).     *)
(***************************************************************************)
EXTENDS Integers, Sequences, FiniteSets, Bags, TLC

VARIABLES
    auth,       \* AuthStore.authSubject.value
    storage,    \* sessionStorage: the four session keys
    ctor,       \* AuthStore constructor: "none" | "done" | "threw"
    cart,       \* CartService.cartSubject.value
    header,     \* HeaderComponent fields
    reqs,       \* HTTP requests in flight (a bag)
    route,      \* view shown in the router outlet
    checkout,   \* CheckoutComponent: instance, cart$ subscriptions, timers
    jwt,        \* a token handed to AuthService.decodeTokenRoles, its result
    sent,       \* requests sent so far, when the order of sending is observed
    cartStore,  \* CartStore: cartSubject.value, itemCountSubject.value
    ev          \* what the last handler did (calls, publishes, navigations)

vars ==
    <<auth, storage, ctor, cart, header, reqs, route, checkout, jwt, sent,
      cartStore, ev>>

----------------------------------------------------------------------------
(* Values *)

\* JavaScript null for string-valued fields
Null == "NULL"

\* if (x) on a string | null
truthy(s) == s # Null /\ s # ""

InList(x, l) == \E i \in 1..Len(l) : l[i] = x

MaxInFlight == 2

\* requests sent in a run that observes the order of sending
MaxSent == 5

Roles == {"Admin", "User"}
RoleLists == {<<>>, <<"Admin">>, <<"User">>, <<"Admin", "User">>}

----------------------------------------------------------------------------
(* JSON text of a string array, as a sequence of lexical tokens *)

LBracket == [t |-> "[", v |-> ""]
RBracket == [t |-> "]", v |-> ""]
Comma    == [t |-> ",", v |-> ""]
StrLit(s) == [t |-> "str", v |-> s]

RECURSIVE JoinLits(_)
JoinLits(r) ==
    IF r = <<>> THEN <<>>
    ELSE IF Len(r) = 1 THEN <<StrLit(r[1])>>
    ELSE <<StrLit(r[1]), Comma>> \o JoinLits(Tail(r))

\* JSON.stringify(roles) for roles: string[]
JSONstringify(r) == <<LBracket>> \o JoinLits(r) \o <<RBracket>>

\* JSON.parse(text): the parsed array, or a SyntaxError
JSONparse(text) ==
    LET n == Len(text)
        inner == IF n >= 2 THEN SubSeq(text, 2, n - 1) ELSE <<>>
        m == Len(inner)
        wellFormed ==
            /\ n >= 2
            /\ text[1] = LBracket
            /\ text[n] = RBracket
            /\ \/ m = 0
               \/ /\ m % 2 = 1
                  /\ \A i \in 1..m :
                        IF i % 2 = 1 THEN inner[i].t = "str"
                                     ELSE inner[i] = Comma
    IN  IF wellFormed
        THEN [threw |-> FALSE,
              value |-> [i \in 1..((m + 1) \div 2) |-> inner[2 * i - 1].v]]
        ELSE [threw |-> TRUE, value |-> <<>>]

----------------------------------------------------------------------------
(* AuthStore *)

initialState ==
    [isAuthenticated |-> FALSE, token |-> Null, userId |-> Null,
     email |-> Null, roles |-> <<>>]

\* sessionStorage.getItem('roles') is null when has = FALSE, else text
NoItem == [has |-> FALSE, text |-> <<>>]
Item(text) == [has |-> TRUE, text |-> text]

EmptyStorage ==
    [token |-> Null, userId |-> Null, email |-> Null, roles |-> NoItem]

isAuthenticated == auth.isAuthenticated
getToken == auth.token
getRoles == auth.roles
hasRole(role) == InList(role, auth.roles)

\* a rehydration that takes the token alone as proof of a session
loadFromStorageTokenOnly(st) ==
    IF truthy(st.token)
    THEN [threw |-> FALSE,
          state |-> [isAuthenticated |-> TRUE, token |-> st.token,
                     userId |-> st.userId, email |-> st.email,
                     roles |-> <<>>]]
    ELSE [threw |-> FALSE, state |-> initialState]

\* loadFromStorage(): the state the subject holds afterwards, or the throw
loadFromStorage(st) ==
    LET token == st.token
        userId == st.userId
        email == st.email
        rolesJson == st.roles
        parsed == IF rolesJson.has /\ rolesJson.text # <<>>
                  THEN JSONparse(rolesJson.text)
                  ELSE [threw |-> FALSE, value |-> <<>>]
    IN  IF parsed.threw
        THEN [threw |-> TRUE, state |-> initialState]
        ELSE IF truthy(token) /\ truthy(userId) /\ truthy(email)
        THEN [threw |-> FALSE,
              state |-> [isAuthenticated |-> TRUE, token |-> token,
                         userId |-> userId, email |-> email,
                         roles |-> parsed.value]]
        ELSE [threw |-> FALSE, state |-> initialState]

saveToStorage(st, authState) ==
    IF truthy(authState.token) /\ truthy(authState.userId)
       /\ truthy(authState.email)
    THEN [token |-> authState.token, userId |-> authState.userId,
          email |-> authState.email,
          roles |-> Item(JSONstringify(authState.roles))]
    ELSE st

\* a clearStorage that leaves the 'roles' key behind
clearStorageKeepsRoles(st) ==
    [token |-> Null, userId |-> Null, email |-> Null, roles |-> st.roles]

clearStorage(st) ==
    [token |-> Null, userId |-> Null, email |-> Null, roles |-> NoItem]

\* the AuthState that setAuth publishes
setAuthState(token, userId, email, roles) ==
    [isAuthenticated |-> TRUE, token |-> token, userId |-> userId,
     email |-> email, roles |-> roles]

----------------------------------------------------------------------------
(* Cart values *)

NullCart == [isNull |-> TRUE, userId |-> "", items |-> <<>>]

\* what a handler did: filled in by every action
NoEv ==
    [op |-> "init", kind |-> "", origin |-> "", status |-> 0,
     clearAuthCalls |-> 0, setAuthCalls |-> 0, navs |-> <<>>,
     published |-> <<>>, issued |-> <<>>, timers |-> <<>>, cb |-> "none",
     cbSawCart |-> NullCart, threw |-> FALSE, wasAuth |-> FALSE,
     rolesArg |-> <<>>, served |-> NullCart, cartWas |-> NullCart,
     bearers |-> <<>>, cbCount |-> 0, cbStatus |-> 0,
     cbSawAuth |-> initialState, cbSawStorage |-> EmptyStorage,
     cbSawNavs |-> <<>>,
     login |-> [token |-> "", userId |-> "", email |-> ""],
     n |-> 0, appliedWas |-> 0,
     deadTimers |-> <<>>, errorMessage |-> "", isLoading |-> FALSE]

Ev(op) == [NoEv EXCEPT !.op = op]

HeaderInit ==
    [isLoggedIn |-> FALSE, cartItemCount |-> 0, cart |-> NullCart,
     updatingItemId |-> Null]

\* the order of sending is not observed: requests carry number 0
NotObserved == [on |-> FALSE, count |-> 0, applied |-> 0]

\* new CartStore(): BehaviorSubject(null), BehaviorSubject(0); seen is what
\* a cart$ subscriber finds in both subjects while it is being notified
CartStoreInit ==
    [cart |-> NullCart, itemCount |-> 0,
     seen |-> [cart |-> NullCart, itemCount |-> 0]]

\* no token under decoding
NoJwt == [parts |-> <<>>, done |-> FALSE, roles |-> <<>>]

CheckoutInit ==
    [alive |-> FALSE, cart |-> NullCart, subscribed |-> FALSE,
     leaked |-> FALSE, timersLive |-> {}, timersOrphan |-> {}]

----------------------------------------------------------------------------
(* The AuthStore on its own, over arbitrary sessionStorage contents *)

StoredStrings == {Null, "", "t1", "t2"}
StoredIds == {Null, "", "u1"}
StoredEmails == {Null, "", "e1"}
StoredRoleTexts ==
    {NoItem, Item(<<>>)}
    \cup {Item(JSONstringify(r)) : r \in RoleLists}
    \cup {Item(<<LBracket, StrLit("Admin")>>)}       \* truncated: not JSON

ArgTokens == {"", "t1", "t2"}
ArgIds == {"", "u1"}
ArgEmails == {"", "e1"}

ClientUnchanged ==
    UNCHANGED <<cart, header, reqs, route, checkout, jwt, sent, cartStore>>

InitStore ==
    /\ auth = initialState
    /\ storage \in [token : StoredStrings, userId : StoredIds,
                    email : StoredEmails, roles : StoredRoleTexts]
    /\ ctor = "none"
    /\ cart = NullCart
    /\ header = HeaderInit
    /\ reqs = EmptyBag
    /\ route = "products"
    /\ checkout = CheckoutInit
    /\ jwt = NoJwt
    /\ sent = NotObserved
    /\ cartStore = CartStoreInit
    /\ ev = NoEv

\* new AuthStore(): field initialisers, then loadFromStorage()
Construct ==
    /\ ctor = "none"
    /\ LET r == loadFromStorage(storage)
       IN  /\ auth' = r.state
           /\ ctor' = IF r.threw THEN "threw" ELSE "done"
           /\ ev' = [Ev("construct") EXCEPT !.threw = r.threw]
    /\ UNCHANGED storage
    /\ ClientUnchanged

StoreSetAuth(token, userId, email, roles) ==
    /\ ctor = "done"
    /\ LET authState == setAuthState(token, userId, email, roles)
       IN  /\ auth' = authState
           /\ storage' = saveToStorage(storage, authState)
    /\ ev' = [Ev("setAuth") EXCEPT !.setAuthCalls = 1, !.rolesArg = roles,
                                   !.wasAuth = auth.isAuthenticated]
    /\ UNCHANGED ctor
    /\ ClientUnchanged

StoreClearAuth ==
    /\ ctor = "done"
    /\ auth' = initialState
    /\ storage' = clearStorage(storage)
    /\ ev' = [Ev("clearAuth") EXCEPT !.clearAuthCalls = 1,
                                     !.wasAuth = auth.isAuthenticated]
    /\ UNCHANGED ctor
    /\ ClientUnchanged

\* the page is reloaded: the store object is gone, sessionStorage stays
PageReload ==
    /\ ctor # "none"
    /\ ctor' = "none"
    /\ auth' = initialState
    /\ ev' = Ev("reload")
    /\ UNCHANGED storage
    /\ ClientUnchanged

NextStore ==
    \/ Construct
    \/ \E t \in ArgTokens, u \in ArgIds, e \in ArgEmails, r \in RoleLists :
          StoreSetAuth(t, u, e, r)
    \/ StoreClearAuth
    \/ PageReload

SpecStore == InitStore /\ [][NextStore]_vars

----------------------------------------------------------------------------
(* AuthService.decodeTokenRoles *)

\* a claim value of the decoded payload: absent, a string, or an array
Absent == [kind |-> "absent", val |-> <<>>]
StrVal(s) == [kind |-> "string", val |-> <<s>>]
ArrVal(l) == [kind |-> "array", val |-> l]

\* if (decodedPayload[key]): undefined and '' are falsy, an array is truthy
claimTruthy(c) ==
    \/ c.kind = "array"
    \/ c.kind = "string" /\ c.val[1] # ""

\* Array.isArray(v) ? v : [v]
asList(c) == IF c.kind = "array" THEN c.val ELSE <<c.val[1]>>

\* a token segment: the alphabet its characters come from ("alnum": letters
\* and digits only; "url": also '-' or '_', as base64url uses; "std": also
\* '+' or '/'; "bad": others), whether JSON.parse accepts the decoded text,
\* and the role claims of the parsed object
Segment(chars, json, ns, role, roles) ==
    [chars |-> chars, json |-> json, ns |-> ns, role |-> role,
     roles |-> roles]
OpaqueSegment == Segment("alnum", FALSE, Absent, Absent, Absent)

\* atob(segment) throws InvalidCharacterError outside the base64 alphabet
atobThrows(seg) == seg.chars \in {"url", "bad"}

\* token.split('.') for the tokens the backend hands out
split(token) ==
    CASE token = "t1" ->
            <<OpaqueSegment,
              Segment("alnum", TRUE, ArrVal(<<"Admin", "User">>), Absent,
                      Absent),
              OpaqueSegment>>
      [] token = "t2" ->
            <<OpaqueSegment,
              Segment("alnum", TRUE, Absent, StrVal("User"), Absent),
              OpaqueSegment>>
      [] token = "t4" ->
            <<OpaqueSegment,
              Segment("alnum", TRUE, Absent, Absent, StrVal("admin")),
              OpaqueSegment>>
      [] OTHER -> <<OpaqueSegment>>

\* a decoder that looks under 'role' before the namespaced key
decodePartsRoleFirst(parts) ==
    IF Len(parts) < 2 THEN <<>>
    ELSE LET payload == parts[2]
         IN  IF atobThrows(payload) \/ ~payload.json THEN <<>>
             ELSE IF claimTruthy(payload.role) THEN asList(payload.role)
             ELSE IF claimTruthy(payload.ns) THEN asList(payload.ns)
             ELSE IF claimTruthy(payload.roles) THEN asList(payload.roles)
             ELSE <<>>

\* the body of decodeTokenRoles over parts = token.split('.')
decodeParts(parts) ==
    IF Len(parts) < 2 THEN <<>>                    \* atob(undefined) throws
    ELSE LET payload == parts[2]
         IN  IF atobThrows(payload) \/ ~payload.json THEN <<>>    \* catch
             ELSE IF claimTruthy(payload.ns) THEN asList(payload.ns)
             ELSE IF claimTruthy(payload.role) THEN asList(payload.role)
             ELSE IF claimTruthy(payload.roles) THEN asList(payload.roles)
             ELSE <<>>

decodeTokenRoles(token) == decodeParts(split(token))

\* decodeTokenRoles on its own, over tokens of every shape
ClaimVals ==
    {Absent, StrVal(""), StrVal("Admin"), StrVal("admin"), ArrVal(<<>>),
     ArrVal(<<"Admin", "User">>)}

ClaimSegments ==
    {Segment(c, FALSE, Absent, Absent, Absent) :
        c \in {"alnum", "url", "std", "bad"}}
    \cup {Segment(c, TRUE, n, r, rs) :
             c \in {"alnum", "url", "std", "bad"},
             n \in ClaimVals, r \in ClaimVals, rs \in ClaimVals}

\* the segments of a token: one to four, the second the claims payload
Jwts ==
    {<<OpaqueSegment>>}
    \cup {<<OpaqueSegment, p>> : p \in ClaimSegments}
    \cup {<<OpaqueSegment, p, OpaqueSegment>> : p \in ClaimSegments}
    \cup {<<OpaqueSegment, p, OpaqueSegment, OpaqueSegment>> :
             p \in ClaimSegments}

InitDecode ==
    /\ auth = initialState
    /\ storage = EmptyStorage
    /\ ctor = "done"
    /\ cart = NullCart
    /\ header = HeaderInit
    /\ reqs = EmptyBag
    /\ route = "login"
    /\ checkout = CheckoutInit
    /\ jwt \in [parts : Jwts, done : {FALSE}, roles : {<<>>}]
    /\ sent = NotObserved
    /\ cartStore = CartStoreInit
    /\ ev = NoEv

\* const roles = this.decodeTokenRoles(token)
Decode ==
    /\ ~jwt.done
    /\ jwt' = [jwt EXCEPT !.done = TRUE, !.roles = decodeParts(jwt.parts)]
    /\ ev' = Ev("decode")
    /\ UNCHANGED <<auth, storage, ctor, cart, header, reqs, route, checkout,
                   sent, cartStore>>

NextDecode == Decode

SpecDecode == InitDecode /\ [][NextDecode]_vars

----------------------------------------------------------------------------
(* Backend: users, login responses, carts *)

Users == {"u1", "u2"}

\* accounts by the token the backend signs for them: "u1" Admin and User
\* under the namespaced key, "u2" User under 'role', "u3" an opaque token
\* (no '.'), "u4" admin in lower case under 'roles'
Accounts == {"u1", "u2", "u3", "u4"}

\* the LoginResponse the backend gives for a user's credentials
LoginResponse(u) ==
    CASE u = "u1" -> [token |-> "t1", userId |-> "u1", email |-> "e1"]
      [] u = "u2" -> [token |-> "t2", userId |-> "u2", email |-> "e2"]
      [] u = "u3" -> [token |-> "t3", userId |-> "u3", email |-> "e3"]
      [] OTHER -> [token |-> "t4", userId |-> "u4", email |-> "e4"]

\* the user a bearer token identifies to the backend
UserOfToken(token) ==
    CASE token = "t1" -> "u1"
      [] token = "t2" -> "u2"
      [] token = "t3" -> "u3"
      [] OTHER -> "u4"

CartItem(id, quantity) == [id |-> id, quantity |-> quantity]
ItemLists == {<<>>, <<CartItem("l1", 2), CartItem("l2", 1)>>}

Cart(userId, items) == [isNull |-> FALSE, userId |-> userId, items |-> items]

ErrorStatuses == {401, 500}

RECURSIVE SumQuantity(_)
SumQuantity(items) ==
    IF items = <<>> THEN 0
    ELSE Head(items).quantity + SumQuantity(Tail(items))

\* a count of the cart's lines instead of their quantities
getCartItemCountLines(c) == IF c.isNull THEN 0 ELSE Len(c.items)

\* CartService.getCartItemCount over a cart value
getCartItemCount(c) == IF c.isNull THEN 0 ELSE SumQuantity(c.items)

\* !cart || cart.items.length === 0
cartEmpty(c) == c.isNull \/ c.items = <<>>

----------------------------------------------------------------------------
(* Handler steps.  A handler works on S, the client's state while it runs *)

Here(op) ==
    [auth |-> auth, storage |-> storage, cart |-> cart, header |-> header,
     reqs |-> reqs, checkout |-> checkout,
     ev |-> [Ev(op) EXCEPT !.cartWas = cart, !.wasAuth = auth.isAuthenticated]]

\* arg: the cart line of an update or remove, the account of a login
Request(kind, origin, bearer, arg, n) ==
    [kind |-> kind, origin |-> origin, bearer |-> bearer, arg |-> arg,
     n |-> n]

\* the number of the next request this handler sends
nextNumber(S) == IF sent.on THEN sent.count + Len(S.ev.issued) + 1 ELSE 0

\* AuthInterceptor.intercept, request side: the bearer header it attaches
bearerFor(a) == IF truthy(a.token) THEN a.token ELSE Null

\* an interceptor that reads the token of the session the handler started
\* with, not the store's current one
DoIssueStale(S, kind, origin, arg) ==
    [S EXCEPT
        !.reqs = @ (+) SetToBag({Request(kind, origin, bearerFor(auth), arg,
                                         nextNumber(S))}),
        !.ev.issued = Append(@, kind),
        !.ev.bearers = Append(@, bearerFor(auth))]

\* http.<verb>(...).subscribe(...) through the interceptor
DoIssue(S, kind, origin, arg) ==
    [S EXCEPT
        !.reqs = @ (+) SetToBag({Request(kind, origin, bearerFor(S.auth),
                                         arg, nextNumber(S))}),
        !.ev.issued = Append(@, kind),
        !.ev.bearers = Append(@, bearerFor(S.auth))]

\* router.navigate([target])
DoNavigate(S, target) == [S EXCEPT !.ev.navs = Append(@, target)]

\* window.setTimeout(() => router.navigate(...), 2000) in the checkout view;
\* the id goes to the instance's timeoutIds, which only a live instance's
\* ngOnDestroy will clear.  timersLive / timersOrphan hold the targets that
\* have at least one timeout pending.
DoTimer(S, live, target) ==
    IF live
    THEN [S EXCEPT !.checkout.timersLive = @ \cup {target},
                   !.ev.timers = Append(@, target)]
    ELSE [S EXCEPT !.checkout.timersOrphan = @ \cup {target},
                   !.ev.timers = Append(@, target),
                   !.ev.deadTimers = Append(@, target)]

\* HeaderComponent.loadCart
HeaderLoadCart(S) == DoIssue(S, "getCart", "header", "")

\* HeaderComponent's auth$ subscriber
HeaderOnAuth(S) ==
    LET S1 == [S EXCEPT !.header.isLoggedIn = S.auth.isAuthenticated]
    IN  IF S1.header.isLoggedIn
        THEN HeaderLoadCart(S1)
        ELSE [S1 EXCEPT !.header.cart = NullCart,
                        !.header.cartItemCount = 0]

\* HeaderComponent's cart$ subscriber
HeaderOnCart(S, c) ==
    [S EXCEPT !.header.cart = c,
              !.header.cartItemCount =
                  IF c.isNull THEN 0 ELSE SumQuantity(c.items)]

\* the cart$ subscriber CheckoutComponent.loadCart installs, run once for an
\* instance that is live or already destroyed
CheckoutOnCart(S, live, c) ==
    LET S1 == IF live THEN [S EXCEPT !.checkout.cart = c] ELSE S
    IN  IF cartEmpty(c) THEN DoTimer(S1, live, "products") ELSE S1

\* every cart$ subscription checkout views have made: the live view's one
\* (loadCart runs once per instance), and those destroyed views left behind
CheckoutSubsOnCart(S, c) ==
    LET S1 == IF S.checkout.subscribed THEN CheckoutOnCart(S, TRUE, c) ELSE S
    IN  IF S.checkout.leaked THEN CheckoutOnCart(S1, FALSE, c) ELSE S1

\* a subject that skips a value equal to the one it holds
DoPublishDistinct(S, c) ==
    IF c = S.cart THEN S
    ELSE LET S1 == [S EXCEPT !.cart = c, !.ev.published = Append(@, c)]
             S2 == HeaderOnCart(S1, c)
         IN  CheckoutSubsOnCart(S2, c)

\* cartSubject.next(c): the value, then every subscriber in turn
DoPublish(S, c) ==
    LET S1 == [S EXCEPT !.cart = c, !.ev.published = Append(@, c)]
        S2 == HeaderOnCart(S1, c)
    IN  CheckoutSubsOnCart(S2, c)

\* AuthStore.setAuth: publish, subscribers, then persist
DoSetAuth(S, token, userId, email, roles) ==
    LET authState == setAuthState(token, userId, email, roles)
        S1 == [S EXCEPT !.auth = authState,
                        !.ev.setAuthCalls = @ + 1,
                        !.ev.rolesArg = roles]
        S2 == HeaderOnAuth(S1)
    IN  [S2 EXCEPT !.storage = saveToStorage(@, authState)]

\* AuthStore.clearAuth: publish the initial state, subscribers, then erase
DoClearAuth(S) ==
    LET S1 == [S EXCEPT !.auth = initialState,
                        !.ev.clearAuthCalls = @ + 1]
        S2 == HeaderOnAuth(S1)
    IN  [S2 EXCEPT !.storage = clearStorage(@)]

\* an interceptor that also empties the cart store on any failure
InterceptErrorDropsCart(S, status) ==
    IF status = 401
    THEN DoNavigate(DoClearAuth(DoPublish(S, NullCart)), "login")
    ELSE DoPublish(S, NullCart)

\* an interceptor that redirects on 401 and leaves the session in place
InterceptErrorRedirectOnly(S, status) ==
    IF status = 401 THEN DoNavigate(S, "login") ELSE S

\* an interceptor that treats every failure as an expired session
InterceptErrorAnyStatus(S, status) == DoNavigate(DoClearAuth(S), "login")

\* AuthInterceptor.intercept, catchError
InterceptError(S, status) ==
    IF status = 401
    THEN DoNavigate(DoClearAuth(S), "login")
    ELSE S

\* return throwError(() => error): the error the caller receives
rethrown(status) == status

----------------------------------------------------------------------------
(* CartService pipes and the callers' callbacks *)

isLive(r) == r.origin # "checkoutDead"

\* the subscriber's next/error callback runs: what it finds
Called(S, which) ==
    [S EXCEPT !.ev.cb = which, !.ev.cbCount = @ + 1,
              !.ev.cbSawCart = S.cart, !.ev.cbSawAuth = S.auth,
              !.ev.cbSawStorage = S.storage, !.ev.cbSawNavs = S.ev.navs]

\* CheckoutComponent.loadCart, next: subscribe to cart$ (a BehaviorSubject
\* hands the new subscriber its current value at once)
CheckoutSubscribe(S, live) ==
    LET S1 == IF live THEN [S EXCEPT !.checkout.subscribed = TRUE]
                      ELSE [S EXCEPT !.checkout.leaked = TRUE]
    IN  CheckoutOnCart(S1, live, S1.cart)

\* a tap that patches the response's lines into the cart already held
tapCartMerging(S, c) ==
    DoPublish(S, IF S.cart.isNull \/ c.isNull THEN c
                 ELSE [c EXCEPT !.items = S.cart.items \o c.items])

\* tap((cart) => this.cartSubject.next(cart)) of getCart / addToCart /
\* updateCartItem
tapCart(S, c) == DoPublish(S, c)

\* a removeCartItem that trusts the delete and empties the cart itself
tapRemovedNoReload(S) == DoPublish(S, NullCart)

\* tap(() => { this.getCart().subscribe(); }) of removeCartItem
tapRemoved(S) == DoIssue(S, "getCart", "reload", "")

\* a clearCart that re-fetches like removeCartItem does
tapClearedRefetch(S) == DoIssue(S, "getCart", "reload", "")

\* tap(() => this.cartSubject.next(null)) of clearCart
tapCleared(S) == DoPublish(S, NullCart)

\* a login that sets no session when the token yields no roles
tapLoginNeedsRoles(S, response) ==
    IF decodeTokenRoles(response.token) = <<>> THEN S
    ELSE DoSetAuth(S, response.token, response.userId, response.email,
                   decodeTokenRoles(response.token))

\* tap of AuthService.login
tapLogin(S, response) ==
    DoSetAuth(S, response.token, response.userId, response.email,
              decodeTokenRoles(response.token))

\* a success handler that sends everyone to the product list
loginNextAlwaysProducts(S) == DoNavigate(S, "products")

\* LoginComponent.onSubmit, next: route by the roles the store now holds
loginNext(S) ==
    IF InList("Admin", S.auth.roles)
    THEN DoNavigate(S, "admin")
    ELSE DoNavigate(S, "products")

\* the response is a success carrying payload p
OnSuccess(S, r, p) ==
    CASE r.kind = "getCart" ->
            LET S0 == tapCart(S, p.cart)
                S1 == Called(S0, "next")
            IN  IF r.origin = "header" THEN S1
                ELSE IF r.origin \in {"checkout", "checkoutDead"}
                THEN CheckoutSubscribe(S1, isLive(r))
                ELSE S0                     \* subscribe() with no observer
      [] r.kind = "addToCart" ->
            Called(tapCart(S, p.cart), "next")
      [] r.kind = "updateCartItem" ->
            [Called(tapCart(S, p.cart), "next")
                EXCEPT !.header.updatingItemId = Null]
      [] r.kind = "removeCartItem" ->
            [Called(tapRemoved(S), "next")
                EXCEPT !.header.updatingItemId = Null]
      [] r.kind = "clearCart" ->
            DoNavigate(Called(tapCleared(S), "next"), "orders")
      [] r.kind = "login" ->
            loginNext(Called(tapLogin(S, p.login), "next"))
      [] r.kind = "createOrder" ->
            DoIssue(Called(S, "next"), "clearCart", r.origin, "")

\* LoginComponent.onSubmit, error: the message shown
loginErrorMessage(status) ==
    IF status = 401 THEN "Invalid email or password"
    ELSE IF status = 0
    THEN "Cannot connect to server. Please check if the API is running."
    ELSE "Login failed. Please try again."

\* the response is an error with this status
OnError(S, r, status) ==
    LET S1 == InterceptError(S, status)
        S2 == [Called(S1, "error") EXCEPT !.ev.cbStatus = rethrown(status)]
    IN  CASE r.kind = "getCart" ->
                IF r.origin = "reload"
                THEN S1                     \* subscribe() with no observer
                ELSE S2
          [] r.kind = "addToCart" ->
                IF status = 401 THEN DoNavigate(S2, "login") ELSE S2
          [] r.kind \in {"updateCartItem", "removeCartItem"} ->
                [S2 EXCEPT !.header.updatingItemId = Null]
          [] r.kind = "clearCart" -> S2
          [] r.kind = "login" ->
                [S2 EXCEPT !.ev.errorMessage = loginErrorMessage(status),
                           !.ev.isLoading = FALSE]
          [] r.kind = "createOrder" ->
                IF status = 401 THEN DoTimer(S2, isLive(r), "login") ELSE S2

\* what the backend may answer a request with
Payload(c, l) == [cart |-> c, login |-> l]
NoLogin == [token |-> "", userId |-> "", email |-> ""]

Payloads(r) ==
    IF r.kind = "login"
    THEN {Payload(NullCart, LoginResponse(r.arg))}
    ELSE IF r.bearer = Null THEN {}
    ELSE IF r.kind \in {"getCart", "addToCart", "updateCartItem"}
    THEN {Payload(Cart(UserOfToken(r.bearer), items), NoLogin) :
             items \in ItemLists}
    ELSE {Payload(NullCart, NoLogin)}

----------------------------------------------------------------------------
(* Router and component lifecycle, applied when the handler returns *)

targetOf(S) ==
    IF S.ev.navs = <<>> THEN route ELSE S.ev.navs[Len(S.ev.navs)]

\* the calls of a checkout view now belong to a destroyed instance
RECURSIVE BagOfSeq(_)
BagOfSeq(q) ==
    IF q = <<>> THEN EmptyBag ELSE SetToBag({Head(q)}) (+) BagOfSeq(Tail(q))

RECURSIVE SeqOfBag(_)
SeqOfBag(b) ==
    IF b = EmptyBag THEN <<>>
    ELSE LET r == CHOOSE x \in BagToSet(b) : TRUE
         IN  <<r>> \o SeqOfBag(b (-) SetToBag({r}))

Orphaned(b) ==
    LET q == SeqOfBag(b)
    IN  BagOfSeq([i \in 1..Len(q) |->
                    IF q[i].origin = "checkout"
                    THEN [q[i] EXCEPT !.origin = "checkoutDead"]
                    ELSE q[i]])

\* CheckoutComponent.ngOnDestroy; its cart$ subscriptions and the calls it
\* has in flight stay behind
CheckoutDestroy(S) ==
    [S EXCEPT
        !.checkout.alive = FALSE,
        !.checkout.cart = NullCart,
        !.checkout.timersLive = {},
        !.checkout.leaked = @ \/ S.checkout.subscribed,
        !.checkout.subscribed = FALSE,
        !.reqs = Orphaned(@)]

\* new CheckoutComponent, ngOnInit: loadCart()
CheckoutCreate(S) ==
    DoIssue([S EXCEPT !.checkout.alive = TRUE, !.checkout.cart = NullCart],
            "getCart", "checkout", "")

Routed(S) ==
    LET to == targetOf(S)
    IN  IF route = "checkout" /\ to # "checkout" THEN CheckoutDestroy(S)
        ELSE IF route # "checkout" /\ to = "checkout" THEN CheckoutCreate(S)
        ELSE S

Commit(S0) ==
    LET S == Routed(S0)
    IN  /\ BagCardinality(S.reqs) <= MaxInFlight
        /\ sent.count + Len(S.ev.issued) <= MaxSent
        /\ sent' = IF sent.on
                   THEN [on |-> TRUE,
                         count |-> sent.count + Len(S.ev.issued),
                         applied |-> IF S.ev.published # <<>> THEN S.ev.n
                                     ELSE sent.applied]
                   ELSE sent
        /\ auth' = S.auth
        /\ storage' = S.storage
        /\ cart' = S.cart
        /\ header' = S.header
        /\ reqs' = S.reqs
        /\ checkout' = S.checkout
        /\ ev' = S.ev
        /\ route' = targetOf(S0)
        /\ UNCHANGED <<ctor, jwt, cartStore>>

----------------------------------------------------------------------------
(* Actions: what the user does, what the backend answers, timers *)

\* LoginComponent.onSubmit with the credentials of user u
UserLogin(u) ==
    /\ route = "login"
    /\ Commit(DoIssue([Here("onSubmit") EXCEPT !.ev.isLoading = TRUE],
                       "login", "login", u))

\* HeaderComponent.logout
UserLogout ==
    /\ header.isLoggedIn
    /\ Commit(DoNavigate(DoClearAuth(Here("logout")), "login"))

\* a routerLink of the page
UserNavigate(to) ==
    /\ route # to
    /\ Commit(DoNavigate(Here("navigate"), to))

\* HeaderComponent.openCartOffcanvas
UserOpenCart ==
    Commit(HeaderLoadCart(Here("openCartOffcanvas")))

\* ProductListComponent.addToCart / ProductDetailComponent.addToCart
UserAddToCart ==
    /\ route = "products"
    /\ IF ~auth.isAuthenticated
       THEN Commit(DoNavigate(Here("addToCart"), "login"))
       ELSE Commit(DoIssue(Here("addToCart"), "addToCart", "products", ""))

\* an increaseQuantity that bumps the displayed count before the server answers
UserChangeQuantityOptimistic(i) ==
    /\ ~header.cart.isNull
    /\ i \in 1..Len(header.cart.items)
    /\ LET item == header.cart.items[i]
       IN  Commit(DoIssue(
              [Here("changeQuantity") EXCEPT
                  !.header.updatingItemId = item.id,
                  !.header.cartItemCount = @ + 1],
              "updateCartItem", "header", item.id))

\* HeaderComponent.increaseQuantity, and decreaseQuantity above quantity 1
UserChangeQuantity(i) ==
    /\ ~header.cart.isNull
    /\ i \in 1..Len(header.cart.items)
    /\ LET item == header.cart.items[i]
       IN  Commit(DoIssue(
              [Here("changeQuantity") EXCEPT !.header.updatingItemId = item.id],
              "updateCartItem", "header", item.id))

\* HeaderComponent.removeItem, and decreaseQuantity at quantity 1
UserRemoveItem(i) ==
    /\ ~header.cart.isNull
    /\ i \in 1..Len(header.cart.items)
    /\ LET item == header.cart.items[i]
       IN  Commit(DoIssue(
              [Here("removeItem") EXCEPT !.header.updatingItemId = item.id],
              "removeCartItem", "header", item.id))

\* CheckoutComponent.placeOrder with a valid form
UserPlaceOrder ==
    /\ route = "checkout"
    /\ checkout.alive
    /\ ~cartEmpty(checkout.cart)
    /\ Commit(DoIssue(Here("placeOrder"), "createOrder", "checkout", ""))

\* the backend answers request r with a success
RespondOk(r) ==
    /\ BagIn(r, reqs)
    /\ LET S == [Here("response") EXCEPT
                    !.reqs = @ (-) SetToBag({r}),
                    !.ev.kind = r.kind, !.ev.origin = r.origin,
                    !.ev.n = r.n,
                    !.ev.appliedWas = sent.applied,
                    !.ev.status = 200]
       IN  \E p \in Payloads(r) :
              Commit(OnSuccess([S EXCEPT !.ev.served = p.cart,
                                         !.ev.login = p.login], r, p))

\* the backend, or the network, fails request r
RespondError(r, status) ==
    /\ BagIn(r, reqs)
    /\ LET S == [Here("response") EXCEPT
                    !.reqs = @ (-) SetToBag({r}),
                    !.ev.kind = r.kind, !.ev.origin = r.origin,
                    !.ev.n = r.n,
                    !.ev.appliedWas = sent.applied,
                    !.ev.status = status]
       IN  Commit(OnError(S, r, status))

\* a timeout set by the live checkout view fires; others to the same
\* target may stay pending
TimerFireLive(target, last) ==
    /\ target \in checkout.timersLive
    /\ Commit(DoNavigate(
          [Here("timer") EXCEPT
              !.checkout.timersLive = IF last THEN @ \ {target} ELSE @],
          target))

\* a timeout set through a destroyed checkout view fires
TimerFireOrphan(target, last) ==
    /\ target \in checkout.timersOrphan
    /\ Commit(DoNavigate(
          [Here("timer") EXCEPT
              !.checkout.timersOrphan = IF last THEN @ \ {target} ELSE @],
          target))

Init ==
    /\ auth = initialState
    /\ storage = EmptyStorage
    /\ ctor = "done"
    /\ cart = NullCart
    /\ header = HeaderInit
    /\ reqs = EmptyBag
    /\ route = "products"
    /\ checkout = CheckoutInit
    /\ jwt = NoJwt
    /\ sent = NotObserved
    /\ cartStore = CartStoreInit
    /\ ev = NoEv

\* the shop: login, header cart, product list; two accounts
Next ==
    \/ \E u \in Users : UserLogin(u)
    \/ UserLogout
    \/ \E to \in {"products", "login"} : UserNavigate(to)
    \/ UserOpenCart
    \/ UserAddToCart
    \/ \E i \in 1..Len(header.cart.items) : UserChangeQuantity(i)
    \/ \E i \in 1..Len(header.cart.items) : UserRemoveItem(i)
    \/ \E r \in BagToSet(reqs) : RespondOk(r)
    \/ \E r \in BagToSet(reqs), st \in ErrorStatuses : RespondError(r, st)

Spec == Init /\ [][Next]_vars

\* the shop with the checkout view, one account
NextCheckout ==
    \/ UserLogin("u1")
    \/ UserLogout
    \/ \E to \in {"products", "login", "checkout"} : UserNavigate(to)
    \/ UserAddToCart
    \/ \E i \in 1..Len(header.cart.items) : UserChangeQuantity(i)
    \/ \E i \in 1..Len(header.cart.items) : UserRemoveItem(i)
    \/ UserPlaceOrder
    \/ \E r \in BagToSet(reqs) : RespondOk(r)
    \/ \E r \in BagToSet(reqs), st \in ErrorStatuses : RespondError(r, st)
    \/ \E t \in checkout.timersLive, last \in BOOLEAN : TimerFireLive(t, last)
    \/ \E t \in checkout.timersOrphan, last \in BOOLEAN :
          TimerFireOrphan(t, last)

SpecCheckout == Init /\ [][NextCheckout]_vars

\* logging in and out with every kind of account
NextLogin ==
    \/ \E u \in Accounts : UserLogin(u)
    \/ UserLogout
    \/ \E to \in {"products", "login"} : UserNavigate(to)
    \/ \E r \in BagToSet(reqs) : RespondOk(r)
    \/ \E r \in BagToSet(reqs), st \in ErrorStatuses : RespondError(r, st)

SpecLogin == Init /\ [][NextLogin]_vars

\* the shop with the checkout view, the requests numbered as they are sent
InitRace ==
    /\ auth = initialState
    /\ storage = EmptyStorage
    /\ ctor = "done"
    /\ cart = NullCart
    /\ header = HeaderInit
    /\ reqs = EmptyBag
    /\ route = "products"
    /\ checkout = CheckoutInit
    /\ jwt = NoJwt
    /\ sent = [on |-> TRUE, count |-> 0, applied |-> 0]
    /\ cartStore = CartStoreInit
    /\ ev = NoEv

NextRace ==
    \/ NextCheckout
    \/ UserOpenCart

SpecRace == InitRace /\ [][NextRace]_vars

----------------------------------------------------------------------------
(* CartStore *)

\* CartStore.updateItemCount: the count it publishes to itemCount$
updateItemCount(c) == IF c.isNull THEN 0 ELSE SumQuantity(c.items)

\* CartStore.updateCart: cartSubject.next(cart) notifies the cart$
\* subscribers, then updateItemCount(cart)
CartStoreUpdateCart(c) ==
    /\ cartStore' = [cart |-> c,
                     itemCount |-> updateItemCount(c),
                     seen |-> [cart |-> c, itemCount |-> cartStore.itemCount]]
    /\ ev' = Ev("updateCart")
    /\ UNCHANGED <<auth, storage, ctor, cart, header, reqs, route, checkout,
                   jwt, sent>>

\* CartStore.clearCart: cartSubject.next(null), then itemCountSubject.next(0)
CartStoreClearCart ==
    /\ cartStore' = [cart |-> NullCart,
                     itemCount |-> 0,
                     seen |-> [cart |-> NullCart,
                               itemCount |-> cartStore.itemCount]]
    /\ ev' = Ev("clearCart")
    /\ UNCHANGED <<auth, storage, ctor, cart, header, reqs, route, checkout,
                   jwt, sent>>

StoreQuantities == 1..3
StoreItemLists ==
    {<<>>}
    \cup {<<CartItem(l, q)>> : l \in {"l1", "l2"}, q \in StoreQuantities}
    \cup {<<CartItem("l1", q1), CartItem("l2", q2)>> :
             q1 \in StoreQuantities, q2 \in StoreQuantities}
StoreCarts == {Cart(u, items) : u \in Users, items \in StoreItemLists}

NextCartStore ==
    \/ \E c \in StoreCarts : CartStoreUpdateCart(c)
    \/ CartStoreClearCart

SpecCartStore == Init /\ [][NextCartStore]_vars

----------------------------------------------------------------------------
(* Claims about the AuthStore, checked under SpecStore *)

SessionKeysAbsent ==
    /\ storage.token = Null
    /\ storage.userId = Null
    /\ storage.email = Null
    /\ ~storage.roles.has

\* C3: after setAuth(token, userId, email, roles), for every argument and
\* every earlier history, isAuthenticated() is true, hasRole(r) holds exactly
\* for the roles passed, and a fresh AuthStore built over the same
\* sessionStorage holds the same session as the current one.
C3_SetAuthRoundTrip ==
    ev.op = "setAuth" =>
        /\ isAuthenticated
        /\ \A r \in Roles : hasRole(r) <=> InList(r, ev.rolesArg)
        /\ loadFromStorage(storage) = [threw |-> FALSE, state |-> auth]

\* C4: after clearAuth(), from any prior state, the session is the
\* unauthenticated one (isAuthenticated false, token null, no roles) and
\* sessionStorage holds none of token, userId, email, roles.
C4_ClearAuthErases ==
    ev.clearAuthCalls > 0 =>
        /\ ~isAuthenticated
        /\ getToken = Null
        /\ getRoles = <<>>
        /\ SessionKeysAbsent

C4_Witness ==
    /\ ev.op = "clearAuth"
    /\ ev.wasAuth
    /\ ~isAuthenticated
    /\ SessionKeysAbsent

\* C5: after construction the published session is authenticated exactly
\* when token, userId and email are all present (non-empty) in
\* sessionStorage, and is the default unauthenticated session otherwise.
C5_ConstructIffPresent ==
    ev.op = "construct" =>
        LET allPresent == /\ truthy(storage.token)
                          /\ truthy(storage.userId)
                          /\ truthy(storage.email)
        IN  /\ isAuthenticated <=> allPresent
            /\ ~allPresent => auth = initialState

\* C6: construction completes for every content of sessionStorage, and the
\* session it leaves is the default one or a fully authenticated one.
C6_ConstructNeverFails ==
    ev.op = "construct" =>
        /\ ~ev.threw
        /\ ctor = "done"
        /\ \/ auth = initialState
           \/ /\ isAuthenticated
              /\ truthy(auth.token) /\ truthy(auth.userId)
              /\ truthy(auth.email)

----------------------------------------------------------------------------
(* Claims about the client, checked under Spec and SpecCheckout *)

CartKinds ==
    {"getCart", "addToCart", "updateCartItem", "removeCartItem", "clearCart"}

Responded == ev.op = "response"
Succeeded == Responded /\ ev.status = 200
Failed == Responded /\ ev.status # 200

CountOf(x, l) == Cardinality({i \in 1..Len(l) : l[i] = x})

\* C1: a 401 response to any request makes exactly one clearAuth() call and
\* exactly one navigation-to-/login trigger, counting the interceptor and
\* the issuing view's error handler together.
C1_One401OneRedirect ==
    (Responded /\ ev.status = 401) =>
        /\ ev.clearAuthCalls = 1
        /\ CountOf("login", ev.navs) + CountOf("login", ev.timers) = 1

\* C2: a cart call that fails leaves the cart held by CartService as it was,
\* publishes nothing to cart$ and issues nothing further; the held cart
\* changes only when a response succeeds.
C2_FailedCallKeepsCart ==
    /\ (Failed /\ ev.kind \in CartKinds) =>
          /\ cart = ev.cartWas
          /\ ev.published = <<>>
          /\ ev.issued = <<>>
    /\ cart # ev.cartWas => Succeeded

C2_Witness ==
    /\ Failed
    /\ ev.kind = "addToCart"
    /\ ~cart.isNull
    /\ cart = ev.cartWas
    /\ ev.cb = "error"

\* C7: the cart held by CartService is null at start, and once the AuthStore
\* has been cleared (logout, or a 401) it is null and getCartItemCount() is 0.
C7_CartResetOnLogout ==
    /\ ev.op = "init" => cart = NullCart
    /\ ev.clearAuthCalls > 0 =>
          /\ cart = NullCart
          /\ getCartItemCount(cart) = 0

\* C8: when getCart, addToCart or updateCartItem succeeds, the held cart is
\* exactly the cart the server returned, published once to cart$ (the header
\* has it) before the caller's success callback runs.
C8_SuccessAdoptsServerCart ==
    (Succeeded /\ ev.kind \in {"getCart", "addToCart", "updateCartItem"}) =>
        /\ cart = ev.served
        /\ ev.published = <<ev.served>>
        /\ header.cart = ev.served
        /\ ev.cb = "next" => ev.cbSawCart = ev.served

C8_Witness ==
    /\ Succeeded
    /\ ev.kind = "updateCartItem"
    /\ ev.cb = "next"
    /\ ~ev.cartWas.isNull
    /\ ev.cartWas # ev.served
    /\ cart = ev.served

\* C9: a successful DELETE of removeCartItem issues exactly one GET /cart and
\* leaves the held cart alone; the cart changes when that GET succeeds, to
\* the GET's response; a failed DELETE issues no GET.
C9_RemoveThenRefetch ==
    /\ (Succeeded /\ ev.kind = "removeCartItem") =>
          /\ ev.issued = <<"getCart">>
          /\ ev.published = <<>>
          /\ cart = ev.cartWas
    /\ (Failed /\ ev.kind = "removeCartItem") =>
          /\ ev.issued = <<>>
          /\ ev.published = <<>>
          /\ cart = ev.cartWas
    /\ (Succeeded /\ ev.kind = "getCart" /\ ev.origin = "reload") =>
          cart = ev.served

C9_Witness ==
    /\ Succeeded
    /\ ev.kind = "removeCartItem"
    /\ ~cart.isNull
    /\ \E r \in BagToSet(reqs) : r.kind = "getCart" /\ r.origin = "reload"

\* C10: when clearCart succeeds the held cart is set to null directly, and
\* the cart service issues no further request.
C10_ClearSetsNull ==
    (Succeeded /\ ev.kind = "clearCart") =>
        /\ cart = NullCart
        /\ ev.published = <<NullCart>>
        /\ ev.issued = <<>>

C10_Witness ==
    /\ Succeeded
    /\ ev.kind = "clearCart"
    /\ ~ev.cartWas.isNull
    /\ cart = NullCart

\* the units of a cart, counted one by one
UnitsIn(c) ==
    Cardinality(UNION {{<<i, k>> : k \in 1..c.items[i].quantity} :
                          i \in 1..Len(c.items)})

\* C11: getCartItemCount() is the sum of quantity over the lines of the held
\* cart, 0 when the cart is null, and after every publish to cart$ the
\* header's cartItemCount is that value (and its cart the held cart).
C11_ItemCountIsSum ==
    /\ getCartItemCount(cart) = IF cart.isNull THEN 0 ELSE UnitsIn(cart)
    /\ ev.published # <<>> =>
          /\ cart = ev.published[Len(ev.published)]
          /\ header.cart = cart
          /\ header.cartItemCount = getCartItemCount(cart)

C11_Witness ==
    /\ ev.published # <<>>
    /\ ~cart.isNull
    /\ Len(cart.items) = 2
    /\ header.cartItemCount = 3
    /\ getCartItemCount(ev.cartWas) = 0

\* C12: every request a handler sends carries as bearer the token the
\* AuthStore holds at that moment, and no Authorization header when the
\* session is unauthenticated; a request sent while isAuthenticated() is
\* true always carries one.
C12_BearerIsCurrentToken ==
    \A i \in 1..Len(ev.bearers) :
        /\ truthy(getToken) => ev.bearers[i] = getToken
        /\ ~isAuthenticated => ev.bearers[i] = Null
        /\ isAuthenticated => ev.bearers[i] # Null

C12_Witness ==
    /\ Succeeded
    /\ ev.kind = "login"
    /\ ev.wasAuth
    /\ ev.bearers = <<getToken>>
    /\ \E r \in BagToSet(reqs) : r.kind = "getCart" /\ r.bearer = getToken

\* C13: when a 401 reaches the caller's error callback, the interceptor has
\* already cleared the session (isAuthenticated() false, no session keys in
\* sessionStorage) and triggered the navigation to /login, and the error
\* delivered is the original 401.
C13_ClearedBeforeErrorCallback ==
    (Responded /\ ev.status = 401 /\ ev.cb = "error") =>
        /\ ~ev.cbSawAuth.isAuthenticated
        /\ ev.cbSawStorage = EmptyStorage
        /\ ev.cbSawNavs = <<"login">>
        /\ ev.cbStatus = 401
        /\ ev.cbCount = 1

C13_Witness ==
    /\ Responded
    /\ ev.status = 401
    /\ ev.cb = "error"
    /\ ev.wasAuth
    /\ ~ev.cbSawAuth.isAuthenticated
    /\ ev.kind = "addToCart"

LogoutOr401 ==
    \/ ev'.op = "logout"
    \/ ev'.op = "response" /\ ev'.status = 401

\* C14 as stated: the session leaves the authenticated state only by a
\* logout or a 401 response, and every successful response and every failure
\* with another status leaves the session and its persisted keys unchanged.
C14_OnlyLogoutOr401 ==
    [][/\ (auth.isAuthenticated /\ ~auth'.isAuthenticated) => LogoutOr401
       /\ (ev'.op = "response" /\ ev'.status # 401) =>
              (auth' = auth /\ storage' = storage)]_vars

\* C14 amended: the session leaves the authenticated state only by a logout
\* or a 401 response; a failure with another status, and a successful
\* response other than a login's, leaves the session and its persisted keys
\* unchanged; a successful login response sets the session of its account.
C14_OnlyLogoutOr401ExceptLogin ==
    [][/\ (auth.isAuthenticated /\ ~auth'.isAuthenticated) => LogoutOr401
       /\ (/\ ev'.op = "response"
           /\ ev'.status # 401
           /\ ~(ev'.kind = "login" /\ ev'.status = 200)) =>
              (auth' = auth /\ storage' = storage)
       /\ (ev'.op = "response" /\ ev'.kind = "login" /\ ev'.status = 200) =>
              /\ auth'.isAuthenticated
              /\ auth'.token = ev'.bearers[1]]_vars

C14_Witness ==
    /\ Failed
    /\ ev.status = 500
    /\ ev.wasAuth
    /\ isAuthenticated
    /\ storage # EmptyStorage

\* C15: a failed request is never sent again, and its failure reaches the
\* code that issued it as exactly one error notification; also for the
\* GET /cart that removeCartItem issues after its delete.
C15_FailureReportedOnce ==
    Failed =>
        /\ ev.issued = <<>>
        /\ ev.cb = "error"
        /\ ev.cbCount = 1

----------------------------------------------------------------------------
(* Claims about decodeTokenRoles, checked under SpecDecode *)

\* a key holds a role claim: a non-empty string, or a list
present(c) == c # Absent /\ c # StrVal("")

\* the roles a claim names
listOf(c) == IF c.kind = "string" THEN <<c.val[1]>> ELSE c.val

RoleKeys == {"ns", "role", "roles"}
claimAt(k) ==
    IF k = "ns" THEN jwt.parts[2].ns
    ELSE IF k = "role" THEN jwt.parts[2].role
    ELSE jwt.parts[2].roles
KeysHeld == {k \in RoleKeys : claimAt(k) # Absent}

\* header.payload.signature, the payload base64url-encoded JSON
WellFormedJwt ==
    /\ Len(jwt.parts) = 3
    /\ jwt.parts[2].chars \in {"alnum", "url"}
    /\ jwt.parts[2].json

\* C16: for a well-formed token whose payload holds a role claim under
\* exactly one of the three keys, as a string or a list, decodeTokenRoles
\* returns exactly the roles of that claim, in their case.
C16_DecodeReturnsClaim ==
    (jwt.done /\ WellFormedJwt /\ Cardinality(KeysHeld) = 1) =>
        \A k \in KeysHeld :
            present(claimAt(k)) => jwt.roles = listOf(claimAt(k))

\* atob and JSON.parse accepted the payload: decodedPayload exists
PayloadRead ==
    /\ Len(jwt.parts) >= 2
    /\ jwt.parts[2].chars \in {"alnum", "std"}
    /\ jwt.parts[2].json

FirstHeld ==
    IF present(claimAt("ns")) THEN "ns"
    ELSE IF present(claimAt("role")) THEN "role"
    ELSE "roles"

MalformedJwt ==
    \/ Len(jwt.parts) # 3
    \/ jwt.parts[2].chars = "bad"
    \/ ~jwt.parts[2].json

\* C18: for every malformed token decodeTokenRoles returns the empty list.
C18_MalformedGivesNoRoles ==
    (jwt.done /\ MalformedJwt) => jwt.roles = <<>>

----------------------------------------------------------------------------
(* Claims about login, checked under SpecLogin *)

LoginSucceeded == Succeeded /\ ev.kind = "login"

\* decodeTokenRoles cannot read the token's payload
Undecodable(token) ==
    LET parts == split(token)
    IN  \/ Len(parts) < 2
        \/ atobThrows(parts[2])
        \/ ~parts[2].json

\* C19: a successful login whose token cannot be decoded still sets the
\* session: isAuthenticated() with the response's token, userId and email,
\* no roles, and the login view's success callback (not its error callback)
\* runs, once.
C19_UndecodableTokenStillLogsIn ==
    (LoginSucceeded /\ Undecodable(ev.login.token)) =>
        /\ isAuthenticated
        /\ auth.token = ev.login.token
        /\ auth.userId = ev.login.userId
        /\ auth.email = ev.login.email
        /\ getRoles = <<>>
        /\ ev.cb = "next"
        /\ ev.cbCount = 1

C19_Witness ==
    /\ LoginSucceeded
    /\ ev.login.token = "t3"
    /\ Undecodable(ev.login.token)
    /\ isAuthenticated
    /\ storage.token = "t3"
    /\ route = "products"

\* C20: after a successful login the store holds the session (token, userId,
\* email, decoded roles) when the login view's success callback runs, and
\* the view triggers exactly one navigation: to /admin if and only if the
\* decoded roles contain 'Admin' in that exact case, else to /products.
C20_LoginRoutesByRole ==
    LoginSucceeded =>
        LET roles == decodeTokenRoles(ev.login.token)
        IN  /\ ev.setAuthCalls = 1
            /\ ev.cb = "next"
            /\ ev.cbSawAuth = setAuthState(ev.login.token, ev.login.userId,
                                           ev.login.email, roles)
            /\ ev.cbSawNavs = <<>>
            /\ ev.navs = IF \E i \in 1..Len(roles) : roles[i] = "Admin"
                         THEN <<"admin">>
                         ELSE <<"products">>
            /\ route = ev.navs[1]

C20_Witness ==
    /\ LoginSucceeded
    /\ ev.login.token = "t1"
    /\ hasRole("Admin")
    /\ ev.navs = <<"admin">>
    /\ route = "admin"

----------------------------------------------------------------------------
(* Claims about concurrent calls, checked under SpecRace and Spec *)

\* the result a successful cart call publishes
ResultOf ==
    IF ev.kind = "clearCart" THEN NullCart ELSE ev.served

\* C21: every successful getCart, addToCart, updateCartItem and clearCart
\* publishes to cart$ exactly once, at its resolution, its own result (the
\* response cart, null for clearCart), which becomes the held cart whatever
\* was sent or resolved before; a failed call and a delete publish nothing.
\* So a call sent earlier that resolves later overwrites a later call's result.
C21_PublishInResolutionOrder ==
    /\ (Succeeded /\ ev.kind \in CartKinds \ {"removeCartItem"}) =>
          /\ ev.published = <<ResultOf>>
          /\ cart = ResultOf
          /\ sent.applied = ev.n
    /\ (Responded /\ ~(Succeeded /\ ev.kind \in CartKinds \ {"removeCartItem"})) =>
          /\ ev.published = <<>>
          /\ cart = ev.cartWas
          /\ sent.applied = ev.appliedWas
    /\ ~Responded => ev.published = <<>>

\* an addToCart sent before a getCart resolves after it and overwrites it
C21_Witness ==
    /\ Succeeded
    /\ ev.kind = "addToCart"
    /\ ev.n < ev.appliedWas
    /\ ~ev.cartWas.isNull
    /\ ev.cartWas # ev.served
    /\ cart = ev.served

LineIds == {"l1", "l2"}

\* a step that issues or resolves an update or a remove of a cart line
MutationStep ==
    \/ ev'.op \in {"changeQuantity", "removeItem"}
    \/ ev'.op = "response" /\ ev'.kind \in {"updateCartItem", "removeCartItem"}

\* the request this step resolves
Resolves(r) == CopiesIn(r, reqs') < CopiesIn(r, reqs)

LinesOfStep ==
    IF ev'.op = "response"
    THEN {r.arg : r \in {q \in BagToSet(reqs) : Resolves(q)}}
    ELSE {header'.updatingItemId}

\* C22: issuing or resolving an update or remove of one cart line neither
\* clears nor sets the updating mark of any other line.
C22_PerLineUpdating ==
    [][MutationStep =>
          \A L \in LineIds \ LinesOfStep :
              (header'.updatingItemId = L) <=> (header.updatingItemId = L)]_vars

\* C23: a publish to cart$ schedules no timer through a checkout view that
\* has been destroyed.
C23_DestroyedCheckoutIsDeaf ==
    ev.published # <<>> => ev.deadTimers = <<>>

----------------------------------------------------------------------------
(* Claims about the login view, checkout and sessions *)

\* C25: when login fails with 401 the login view shows 'Invalid email or
\* password' and is not loading, no navigation is triggered in the client,
\* and the session and its persisted keys are as before the attempt.
C25_BadCredentialsNoSideEffect ==
    [][(ev'.op = "response" /\ ev'.kind = "login" /\ ev'.status = 401) =>
          /\ ev'.errorMessage = "Invalid email or password"
          /\ ~ev'.isLoading
          /\ ev'.navs = <<>>
          /\ ev'.timers = <<>>
          /\ auth' = auth
          /\ storage' = storage]_vars

\* C26: once the order is created, the resolution of the follow-up clearCart
\* (the only step that can do it) navigates to the order's page, whether
\* clearCart succeeded or failed.
C26_OrderPageAfterClearCart ==
    (Responded /\ ev.kind = "clearCart") =>
        \E i \in 1..Len(ev.navs) : ev.navs[i] = "orders"

\* C27: in every AuthStore state isAuthenticated is true exactly when token,
\* userId and email are all non-null, and an unauthenticated session has no
\* roles.
C27_AuthenticatedIffFieldsSet ==
    /\ isAuthenticated <=>
          (auth.token # Null /\ auth.userId # Null /\ auth.email # Null)
    /\ ~isAuthenticated => getRoles = <<>>

C27_Witness ==
    /\ ev.op = "construct"
    /\ isAuthenticated
    /\ getRoles = <<"Admin", "User">>
    /\ auth.token = storage.token

\* C28: a 401 for a request that was sent under an earlier session leaves
\* the session that is current when it arrives, and its persisted keys, in
\* place.
C28_Stale401KeepsNewSession ==
    [][(/\ ev'.op = "response"
        /\ ev'.status = 401
        /\ auth.isAuthenticated
        /\ \E r \in BagToSet(reqs) :
              Resolves(r) /\ r.bearer # Null /\ r.bearer # auth.token) =>
          (auth' = auth /\ storage' = storage)]_vars

\* C29: whenever the session is authenticated and the held cart is not
\* null, the cart is the cart of the session's user.
C29_CartBelongsToSessionUser ==
    (isAuthenticated /\ ~cart.isNull) => cart.userId = auth.userId

----------------------------------------------------------------------------
(* Claim about CartStore, checked under SpecCartStore *)

UnitsOf(c) == IF c.isNull THEN 0 ELSE UnitsIn(c)

\* C30: CartStore's itemCount is the sum of the quantities of its cart (0
\* for null or no items) whenever a subscriber can observe it, also while
\* cart$ subscribers are being notified inside updateCart and clearCart.
C30_ItemCountTracksCart ==
    /\ cartStore.itemCount = UnitsOf(cartStore.cart)
    /\ cartStore.seen.itemCount = UnitsOf(cartStore.seen.cart)

====
